---- MODULE Spec2Model ----
(***************************************************************************)
(* Risk gating and trade-risk assessment of the trading backend.           *)
(*                                                                         *)
(*   backend/app/core/risk_engine.py    risk_gate and its helpers          *)
(*   backend/app/core/risk_manager.py   RiskManager                        *)
(*   backend/app/api/endpoints/trading.py   place_order                    *)
(*                                                                         *)
(* Money is counted in cents (the Numeric(12, 2) columns), time in seconds *)
(* of UTC, percentages as exact integer cross-multiplications.             *)
(***************************************************************************)
EXTENDS Integers, Sequences, FiniteSets, TLC

\* ------------------------------------------------------------------ bounds
\* seconds between two observable instants of the clock
TickSeconds == 30
\* the clock starts this many ticks before the Pacific midnight
TicksBeforeMidnight == 5
\* the clock stops after this many ticks
MaxTicks == 7
\* rows the PNLLedger table may hold
MaxLedgerRows == 2
\* allowed_spend is counted up to this many dollars
MaxCountedSpend == 120
\* ticks of the clock around the UTC midnight
TicksAroundUtcMidnight == 2
\* place_order is served while daily_trades_count stays within this
MaxDailyTrades == 4
\* ticks of the clock on each side of the Pacific midnight while workers race
TicksOfRace == 1

\* ------------------------------------------------------- program constants
CentsPerDollar == 100
SecondsPerDay == 86400
\* America/Los_Angeles is UTC-8 (standard time)
PacificOffsetSeconds == 28800

SOFT_DRAWDOWN == -200
HARD_DRAWDOWN == -300
DAILY_SPEND_CAP == 100
PER_MARKET_SPEND_CAP == 40
MAX_OPEN_POSITIONS == 8
SOFT_MAX_POSITIONS == 5
BREACH_HYSTERESIS_SECONDS == 60
\* start_equity of a row that _get_day_state creates, in dollars
DefaultStartEquity == 10000

\* KillState and DecisionReason (app.models.enums)
KillNone == "none"
KillSoft == "soft"
KillHard == "hard"
KillState == {KillNone, KillSoft, KillHard}
KillRank(k) == CASE k = KillNone -> 0 [] k = KillSoft -> 1 [] k = KillHard -> 2

DecisionReason ==
    {"ALLOWED", "TRADING_DISABLED", "DAILY_CAP_REACHED", "PER_MARKET_CAP_REACHED",
     "TOO_MANY_POSITIONS", "KILL_HARD", "SOFT_THROTTLE"}

\* ------------------------------------------------------------ input spaces
\* market_ticker of the orders and watchlist entries that are gated
Markets == {"TICK"}
\* intended_spend of an order, in dollars
SpendChoices == {40}
\* what db.query(Position).count() may return
PositionCounts == {0, SOFT_MAX_POSITIONS, MAX_OPEN_POSITIONS}
\* daily_spend of a row the storage collaborator inserts, in dollars
SeedSpend == {95}
\* start_equity of such a row, in dollars
SeedEquity == {1000}
\* the worker processes that run risk_gate
Workers == {"w1", "w2"}
\* intended_action of their calls
Actions == {"open", "heartbeat"}
\* ledger rows that can be appended: market, entry_price * qty, realized_pnl
LedgerKinds ==
    { [market_ticker |-> "OTHER", cost |-> 35 * CentsPerDollar,
       realized_pnl |-> -300 * CentsPerDollar],
      [market_ticker |-> "OTHER", cost |-> 10 * CentsPerDollar,
       realized_pnl |-> 15 * CentsPerDollar],
      [market_ticker |-> "TICK", cost |-> 35 * CentsPerDollar, realized_pnl |-> 0] }

\* a loss of 3% of the default start_equity, and the same amount won back
SwingKinds ==
    { [market_ticker |-> "OTHER", cost |-> 35 * CentsPerDollar,
       realized_pnl |-> -300 * CentsPerDollar],
      [market_ticker |-> "OTHER", cost |-> 35 * CentsPerDollar,
       realized_pnl |-> 300 * CentsPerDollar] }

VARIABLES
    now,            \* the wall clock, seconds of UTC
    trading_mode,   \* settings.TRADING_MODE
    day_state,      \* table day_state of one user: date_local -> row
    ledger,         \* table pnl_ledger of that user, in insertion order
    call,           \* the arguments and readings of the risk_gate call just made
    result,         \* the GateResult it returned
    allowed_spend   \* intended_spend of the opens allowed in the current local day

\* the RiskManager singleton and what the trading endpoints return
VARIABLES
    ticks,                  \* ticks the clock has made
    emergency_stop_active,
    risk_checks_enabled,
    daily_pnl,              \* cents
    daily_trades_count,
    last_reset_date,        \* a UTC date, as a day number
    portfolio_value,        \* cents
    max_portfolio_value,    \* cents
    current_drawdown,       \* percent, as the fraction num / den
    category_exposures,     \* category -> cents
    assessment,             \* the TradeRiskAssessment just returned
    order                   \* the outcome of the place_order request just served

\* risk_gate calls in progress, one per worker process
VARIABLES
    sess            \* worker -> where its call stands and what it holds

\* what an observer of the evaluations remembers
VARIABLES
    streak          \* the breach level classified without a break, and since when

\* arguments and results of the functions that are applied on their own
VARIABLES
    kelly,          \* _calculate_kelly_position_size: two calls that differ in win_probability
    effective,      \* merge_effective_rules: the arguments and what came back
    applied         \* any other function: its name, the arguments, what came back

\* the watchlists table
VARIABLES
    watchlist,      \* market_ticker -> expires_at, the rows of one user
    swept           \* cleanup_expired: when it ran and what it returned

watchVars == <<watchlist, swept>>
fnVars == <<kelly, effective, applied, watchVars>>
callVars == <<sess, fnVars, streak>>
clockVars == <<now, ticks>>
gateState == <<trading_mode, day_state, ledger, allowed_spend>>
rmVars == <<emergency_stop_active, risk_checks_enabled, daily_pnl, daily_trades_count,
            last_reset_date, portfolio_value, max_portfolio_value, current_drawdown,
            category_exposures>>
vars == <<clockVars, gateState, rmVars, call, result, assessment, order, callVars>>

\* no function has been applied
NotApplied == [kind |-> "none"]

StartTime == SecondsPerDay + PacificOffsetSeconds - TicksBeforeMidnight * TickSeconds

\* _local_day: the calendar day of `t` in America/Los_Angeles, as a day number
_local_day(t) == (t - PacificOffsetSeconds) \div SecondsPerDay

\* ----------------------------------------------------------- kill_reason
\* kill_reason is "label:iso|label:iso": a sequence of tokens.  None is << >>.
Marker(level) == IF level = KillSoft THEN "soft_breach" ELSE "hard_breach"

\* the loop of _update_hysteresis over existing.split("|"): a dict keeps the
\* position of a key's first insertion and the value of its last
RECURSIVE ParseTokens(_, _)
ParseTokens(tokens, ts_map) ==
    IF tokens = << >> THEN ts_map
    ELSE LET tok == Head(tokens)
             at == {i \in 1..Len(ts_map) : ts_map[i].label = tok.label}
             nxt == IF at = {} THEN Append(ts_map, tok)
                    ELSE [i \in 1..Len(ts_map) |->
                            IF i \in at THEN tok ELSE ts_map[i]]
         IN ParseTokens(Tail(tokens), nxt)

\* ts_map.get(marker): 0 stands for None (no instant of the model is 0)
MapGet(ts_map, label) ==
    LET at == {i \in 1..Len(ts_map) : ts_map[i].label = label}
    IN IF at = {} THEN 0 ELSE ts_map[CHOOSE i \in at : TRUE].ts

\* ts_map[marker] = now
MapSet(ts_map, label, t) == ParseTokens(<<[label |-> label, ts |-> t]>>, ts_map)

\* mutant: the window must be exceeded, not reached
_update_hysteresis_StrictWindow(row, breach_level, t) ==
    IF breach_level = KillNone THEN row
    ELSE LET marker == Marker(breach_level)
             ts_map == ParseTokens(row.kill_reason, << >>)
             last == MapGet(ts_map, marker)
             written == [row EXCEPT !.kill_reason = MapSet(ts_map, marker, t)]
         IN IF last # 0 /\ t - last > BREACH_HYSTERESIS_SECONDS
            THEN [written EXCEPT !.kill_state = breach_level]
            ELSE written

\* mutant: a NONE classification clears the committed state and the markers
_update_hysteresis_ClearOnNone(row, breach_level, t) ==
    IF breach_level = KillNone
    THEN [row EXCEPT !.kill_state = KillNone, !.kill_reason = << >>]
    ELSE LET marker == Marker(breach_level)
             ts_map == ParseTokens(row.kill_reason, << >>)
             last == MapGet(ts_map, marker)
             written == [row EXCEPT !.kill_reason = MapSet(ts_map, marker, t)]
         IN IF last # 0 /\ t - last >= BREACH_HYSTERESIS_SECONDS
            THEN [written EXCEPT !.kill_state = breach_level]
            ELSE written

\* _update_hysteresis: the row after the call; its kill_state is the return value
_update_hysteresis(row, breach_level, t) ==
    IF breach_level = KillNone THEN row
    ELSE LET marker == Marker(breach_level)
             ts_map == ParseTokens(row.kill_reason, << >>)
             last == MapGet(ts_map, marker)
             written == [row EXCEPT !.kill_reason = MapSet(ts_map, marker, t)]
         IN IF last # 0 /\ t - last >= BREACH_HYSTERESIS_SECONDS
            THEN [written EXCEPT !.kill_state = breach_level]
            ELSE written

\* ---------------------------------------------------------------- ledger
\* start of the local day of t, as an instant
StartOfDay(t) == _local_day(t) * SecondsPerDay + PacificOffsetSeconds

\* sum(realized_pnl) over the rows with closed_at >= start_of_day
RECURSIVE SumRealized(_, _)
SumRealized(rows, start_of_day) ==
    IF rows = << >> THEN 0
    ELSE (IF Head(rows).closed_at >= start_of_day THEN Head(rows).realized_pnl ELSE 0)
         + SumRealized(Tail(rows), start_of_day)

\* sum(entry_price * qty) over the rows of the market with opened_at >= start_of_day
RECURSIVE SumSpend(_, _, _)
SumSpend(rows, start_of_day, market_ticker) ==
    IF rows = << >> THEN 0
    ELSE (IF /\ Head(rows).opened_at >= start_of_day
             /\ Head(rows).market_ticker = market_ticker
          THEN Head(rows).cost ELSE 0)
         + SumSpend(Tail(rows), start_of_day, market_ticker)

_aggregate_realized(t) == SumRealized(ledger, StartOfDay(t))

_aggregate_spend(t, market_ticker) == SumSpend(ledger, StartOfDay(t), market_ticker)

\* -------------------------------------------------------------- drawdown
Min(a, b) == IF a <= b THEN a ELSE b

\* Decimal.quantize(Decimal("0.0001")) of n / d for n <= 0 < d, in units of
\* 0.0001: round half to even
QuantizeE4(n, d) ==
    LET a == (0 - n) * 10000
        q == a \div d
        r == a % d
        up == IF 2 * r > d THEN 1 ELSE IF 2 * r = d THEN q % 2 ELSE 0
    IN 0 - (q + up)

DrawdownPct(realized_today, start_equity) == QuantizeE4(Min(realized_today, 0), start_equity)

\* mutant: the HARD threshold is exclusive
BreachState_HardExclusive(drawdown_pct) ==
    IF drawdown_pct < HARD_DRAWDOWN THEN KillHard
    ELSE IF drawdown_pct <= SOFT_DRAWDOWN THEN KillSoft
    ELSE KillNone

\* risk_gate, lines 138-142; drawdown_pct is in units of 0.0001
BreachState(drawdown_pct) ==
    IF drawdown_pct <= HARD_DRAWDOWN THEN KillHard
    ELSE IF drawdown_pct <= SOFT_DRAWDOWN THEN KillSoft
    ELSE KillNone

\* ------------------------------------------------------------- day state
NewDayState(t) ==
    [start_equity |-> DefaultStartEquity * CentsPerDollar,
     realized_pnl_today |-> 0,
     daily_spend |-> 0,
     kill_state |-> KillNone,
     kill_reason |-> << >>,
     updated_at |-> t]

\* mutant: the row of a new day starts from the latest row's kill state
_get_day_state_CarryOver(t) ==
    IF _local_day(t) \in DOMAIN day_state THEN day_state[_local_day(t)]
    ELSE IF DOMAIN day_state = {} THEN NewDayState(t)
    ELSE LET last == day_state[CHOOSE d \in DOMAIN day_state :
                                  \A x \in DOMAIN day_state : x <= d]
         IN [NewDayState(t) EXCEPT !.kill_state = last.kill_state,
                                   !.kill_reason = last.kill_reason]

\* _get_day_state: the row of the local day, created when there is none
_get_day_state(t) ==
    IF _local_day(t) \in DOMAIN day_state THEN day_state[_local_day(t)] ELSE NewDayState(t)

PutDayState(d, row) ==
    [k \in DOMAIN day_state \cup {d} |-> IF k = d THEN row ELSE day_state[k]]

\* ------------------------------------------------------------- risk_gate
MaxPositionsAllowed(kill_state) ==
    IF kill_state = KillSoft THEN SOFT_MAX_POSITIONS ELSE MAX_OPEN_POSITIONS

DailyCapExceeded(daily_spend, intended_spend) ==
    daily_spend + intended_spend > DAILY_SPEND_CAP * CentsPerDollar

PerMarketCapExceeded(per_market_spend, intended_spend) ==
    per_market_spend + intended_spend > PER_MARKET_SPEND_CAP * CentsPerDollar

\* mutant: the limit itself is still accepted
TooManyPositions_Strict(open_positions, kill_state) ==
    open_positions > MaxPositionsAllowed(kill_state)

TooManyPositions(open_positions, kill_state) ==
    open_positions >= MaxPositionsAllowed(kill_state)

\* mutant: the SOFT branch does not touch size_multiplier
Decide_NoThrottle(intended_action, intended_spend, daily_spend, per_market_spend, open_positions, kill_state) ==
    LET s0 == [allow |-> TRUE, mult |-> 10, reason |-> "ALLOWED"]
        s1 == IF DailyCapExceeded(daily_spend, intended_spend)
              THEN [s0 EXCEPT !.allow = FALSE, !.reason = "DAILY_CAP_REACHED"]
              ELSE IF PerMarketCapExceeded(per_market_spend, intended_spend)
              THEN [s0 EXCEPT !.allow = FALSE, !.reason = "PER_MARKET_CAP_REACHED"]
              ELSE s0
        s2 == IF TooManyPositions(open_positions, kill_state)
              THEN [s1 EXCEPT !.allow = FALSE, !.reason = "TOO_MANY_POSITIONS"]
              ELSE s1
        s3 == IF kill_state = KillHard
              THEN [s2 EXCEPT !.allow = FALSE, !.reason = "KILL_HARD"]
              ELSE IF kill_state = KillSoft /\ s2.allow
              THEN [s2 EXCEPT !.reason = "SOFT_THROTTLE"]
              ELSE s2
    IN IF intended_action = "open" THEN s3 ELSE s0

\* mutant: the decision block runs whatever intended_action is
Decide_AnyAction(intended_action, intended_spend, daily_spend, per_market_spend, open_positions, kill_state) ==
    LET s0 == [allow |-> TRUE, mult |-> 10, reason |-> "ALLOWED"]
        s1 == IF DailyCapExceeded(daily_spend, intended_spend)
              THEN [s0 EXCEPT !.allow = FALSE, !.reason = "DAILY_CAP_REACHED"]
              ELSE IF PerMarketCapExceeded(per_market_spend, intended_spend)
              THEN [s0 EXCEPT !.allow = FALSE, !.reason = "PER_MARKET_CAP_REACHED"]
              ELSE s0
        s2 == IF TooManyPositions(open_positions, kill_state)
              THEN [s1 EXCEPT !.allow = FALSE, !.reason = "TOO_MANY_POSITIONS"]
              ELSE s1
    IN IF kill_state = KillHard
       THEN [s2 EXCEPT !.allow = FALSE, !.reason = "KILL_HARD"]
       ELSE IF kill_state = KillSoft /\ s2.allow
       THEN [s2 EXCEPT !.mult = 5, !.reason = "SOFT_THROTTLE"]
       ELSE s2

\* the decision of risk_gate, lines 151-174: each later `if` overwrites the
\* reason an earlier one has set
Decide(intended_action, intended_spend, daily_spend, per_market_spend, open_positions, kill_state) ==
    LET s0 == [allow |-> TRUE, mult |-> 10, reason |-> "ALLOWED"]
        s1 == IF DailyCapExceeded(daily_spend, intended_spend)
              THEN [s0 EXCEPT !.allow = FALSE, !.reason = "DAILY_CAP_REACHED"]
              ELSE IF PerMarketCapExceeded(per_market_spend, intended_spend)
              THEN [s0 EXCEPT !.allow = FALSE, !.reason = "PER_MARKET_CAP_REACHED"]
              ELSE s0
        s2 == IF TooManyPositions(open_positions, kill_state)
              THEN [s1 EXCEPT !.allow = FALSE, !.reason = "TOO_MANY_POSITIONS"]
              ELSE s1
        s3 == IF kill_state = KillHard
              THEN [s2 EXCEPT !.allow = FALSE, !.reason = "KILL_HARD"]
              ELSE IF kill_state = KillSoft /\ s2.allow
              THEN [s2 EXCEPT !.mult = 5, !.reason = "SOFT_THROTTLE"]
              ELSE s2
    IN IF intended_action = "open" THEN s3 ELSE s0

NoCall == [kind |-> "none"]
NoResult == [kind |-> "none"]
NoAssessment == [kind |-> "none"]
NoOrder == [kind |-> "none"]

\* GateResult, TradeRiskAssessment and the HTTP response are transient values:
\* once the caller has them, nothing keeps them
ForgetGate == call' = NoCall /\ result' = NoResult
ForgetApi == assessment' = NoAssessment /\ order' = NoOrder
Forget == ForgetGate /\ ForgetApi

\* mutant: the trading mode is looked at after realized_pnl_today is refreshed
risk_gate_RefreshFirst(market_ticker, intended_action, intended_spend, open_positions) ==
    LET d == _local_day(now)
        row1 == [_get_day_state(now) EXCEPT !.realized_pnl_today = _aggregate_realized(now)]
        breach_state == BreachState(DrawdownPct(row1.realized_pnl_today, row1.start_equity))
        row2 == _update_hysteresis(row1, breach_state, now)
        dec == Decide(intended_action, intended_spend, row2.daily_spend,
                      _aggregate_spend(now, market_ticker), open_positions, row2.kill_state)
    IN /\ day_state' = PutDayState(d, IF trading_mode # "live" THEN row1
                                      ELSE [row2 EXCEPT !.updated_at = now])
       /\ call' = [kind |-> IF trading_mode # "live" THEN "disabled" ELSE "gate",
                   market_ticker |-> market_ticker,
                   intended_action |-> intended_action,
                   intended_spend |-> intended_spend,
                   open_positions |-> open_positions,
                   daily_spend |-> row2.daily_spend,
                   per_market_spend |-> _aggregate_spend(now, market_ticker),
                   breach_state |-> breach_state,
                   kill_before |-> row1.kill_state]
       /\ result' = IF trading_mode # "live"
                    THEN [kind |-> "gate", allow_new_open |-> FALSE, size_multiplier |-> 0,
                          reason_code |-> "TRADING_DISABLED", kill_state |-> KillNone]
                    ELSE [kind |-> "gate", allow_new_open |-> dec.allow,
                          size_multiplier |-> dec.mult,
                          reason_code |-> dec.reason, kill_state |-> row2.kill_state]
       /\ allowed_spend' =
             IF trading_mode = "live" /\ intended_action = "open" /\ dec.allow
             THEN Min(allowed_spend + intended_spend, MaxCountedSpend * CentsPerDollar)
             ELSE allowed_spend
       /\ ForgetApi
       /\ UNCHANGED <<sess, fnVars, clockVars, rmVars, trading_mode, ledger>>

\* risk_gate(db, user_id, market_ticker, intended_action, intended_spend, now);
\* open_positions is what _count_open_positions reads.  size_multiplier is in
\* tenths.  `call` keeps the arguments and what the evaluation read, `result`
\* the GateResult handed to the caller.
risk_gate(market_ticker, intended_action, intended_spend, open_positions) ==
    LET d == _local_day(now)
        row0 == _get_day_state(now)
        realized_today == _aggregate_realized(now)
        row1 == [row0 EXCEPT !.realized_pnl_today = realized_today]
        breach_state == BreachState(DrawdownPct(realized_today, row1.start_equity))
        row2 == _update_hysteresis(row1, breach_state, now)
        kill_state == row2.kill_state
        daily_spend == row2.daily_spend
        per_market_spend == _aggregate_spend(now, market_ticker)
        dec == Decide(intended_action, intended_spend, daily_spend,
                      per_market_spend, open_positions, kill_state)
        readings == [kind |-> "gate",
                     market_ticker |-> market_ticker,
                     intended_action |-> intended_action,
                     intended_spend |-> intended_spend,
                     open_positions |-> open_positions,
                     daily_spend |-> daily_spend,
                     per_market_spend |-> per_market_spend,
                     breach_state |-> breach_state,
                     kill_before |-> row0.kill_state]
    IN IF trading_mode # "live"
       THEN /\ day_state' = PutDayState(d, row0)
            /\ call' = [kind |-> "disabled",
                        market_ticker |-> market_ticker,
                        intended_action |-> intended_action,
                        intended_spend |-> intended_spend]
            /\ result' = [kind |-> "gate", allow_new_open |-> FALSE, size_multiplier |-> 0,
                          reason_code |-> "TRADING_DISABLED", kill_state |-> KillNone]
            /\ ForgetApi
            /\ UNCHANGED <<sess, fnVars, clockVars, rmVars, trading_mode, ledger, allowed_spend>>
       ELSE /\ day_state' = PutDayState(d, [row2 EXCEPT !.updated_at = now])
            /\ call' = readings
            /\ result' = [kind |-> "gate", allow_new_open |-> dec.allow,
                          size_multiplier |-> dec.mult,
                          reason_code |-> dec.reason, kill_state |-> kill_state]
            /\ allowed_spend' =
                  IF intended_action = "open" /\ dec.allow
                  THEN Min(allowed_spend + intended_spend, MaxCountedSpend * CentsPerDollar)
                  ELSE allowed_spend
            /\ ForgetApi
            /\ UNCHANGED <<sess, fnVars, clockVars, rmVars, trading_mode, ledger>>

\* an order is gated
GateOpen ==
    /\ \E m \in Markets, s \in SpendChoices, p \in PositionCounts :
          risk_gate(m, "open", s * CentsPerDollar, p)
    /\ UNCHANGED streak

\* heartbeat_job: one evaluation per watchlist entry, with Decimal("0"),
\* whatever the number of open positions is at that moment
Heartbeat ==
    /\ \E m \in Markets, p \in PositionCounts : risk_gate(m, "heartbeat", 0, p)
    /\ UNCHANGED streak

\* the run of evaluations an observer has seen classify one breach level:
\* NONE ends it, another level starts a new one
Observe(seen, breach_level, t) ==
    IF breach_level = KillNone THEN [kind |-> "none"]
    ELSE IF seen.kind = "streak" /\ seen.level = breach_level THEN seen
    ELSE [kind |-> "streak", level |-> breach_level, first_seen |-> t]

\* heartbeat_job with an observer that notes what each evaluation classified
HeartbeatWatched ==
    /\ \E m \in Markets, p \in PositionCounts : risk_gate(m, "heartbeat", 0, p)
    /\ streak' = IF call'.kind = "gate" THEN Observe(streak, call'.breach_state, now)
                 ELSE streak

\* ------------------------------------------------------------ environment
\* time passes
Tick ==
    /\ ticks < MaxTicks
    /\ ticks' = ticks + 1
    /\ now' = now + TickSeconds
    /\ allowed_spend' = IF _local_day(now') = _local_day(now) THEN allowed_spend ELSE 0
    /\ Forget
    /\ UNCHANGED <<callVars, rmVars, trading_mode, day_state, ledger>>

\* a position is opened or closed: a row of one of `kinds` is added to
\* pnl_ledger, which holds max_rows rows at most
AppendRow(max_rows, kinds) ==
    /\ Len(ledger) < max_rows
    /\ \E k \in kinds :
          ledger' = Append(ledger, [market_ticker |-> k.market_ticker, cost |-> k.cost,
                                    realized_pnl |-> k.realized_pnl,
                                    opened_at |-> StartOfDay(now),
                                    closed_at |-> StartOfDay(now)])
    /\ Forget
    /\ UNCHANGED <<callVars, clockVars, rmVars, trading_mode, day_state, allowed_spend>>

LedgerAppend == AppendRow(MaxLedgerRows, LedgerKinds)

\* one row more, for a drawdown that gets worse, better and worse again
LedgerAppendAgain == AppendRow(MaxLedgerRows + 1, LedgerKinds)

\* a loss that is won back
LedgerSwing == AppendRow(MaxLedgerRows, SwingKinds)

\* no call is in progress
Idle == [pc |-> "idle"]

\* the storage collaborator writes the day's row before the first evaluation
\* (as the fixtures of tests/test_risk_engine.py do)
SeedDayState ==
    /\ _local_day(now) \notin DOMAIN day_state
    /\ \A w \in Workers : sess[w] = Idle
    /\ \E s \in SeedSpend, e \in SeedEquity :
          day_state' = PutDayState(_local_day(now),
                                   [NewDayState(now) EXCEPT
                                       !.start_equity = e * CentsPerDollar,
                                       !.daily_spend = s * CentsPerDollar])
    /\ Forget
    /\ UNCHANGED <<callVars, clockVars, rmVars, trading_mode, ledger, allowed_spend>>

GateInit ==
    /\ trading_mode \in {"live", "paper"}
    /\ day_state = << >>
    /\ ledger = << >>
    /\ call = NoCall
    /\ result = NoResult
    /\ allowed_spend = 0
    /\ sess = [w \in Workers |-> Idle]
    /\ streak = NotApplied
    /\ kelly = NotApplied
    /\ effective = NotApplied
    /\ applied = NotApplied
    /\ watchlist = << >>
    /\ swept = NotApplied

\* =========================================================== RiskManager
\* settings.RISK_PROFILES
RISK_PROFILES == {"conservative", "moderate", "aggressive"}

\* min_confidence_threshold of a profile, in percent
MinConfidenceThreshold(profile) ==
    CASE profile = "conservative" -> 75
      [] profile = "moderate" -> 60
      [] profile = "aggressive" -> 50

\* max_position_size_percent of a profile, in percent
MaxPositionSizePercent(profile) ==
    CASE profile = "conservative" -> 2
      [] profile = "moderate" -> 5
      [] profile = "aggressive" -> 10

\* settings.DEFAULT_RISK_CONFIG: percent, percent, percent, tenths
ConfigMaxPositionSizePercent == 5
ConfigMaxCategoryExposurePercent == 20
ConfigDailyLossLimitPercent == 2
ConfigMaxCorrelationTenths == 7
\* _check_drawdown_limit, percent
DrawdownWarning == 10
DrawdownCritical == 15
\* RiskManager.__init__: portfolio_value, dollars
DefaultPortfolioValue == 10000

RiskLevels == <<"low", "medium", "high", "critical">>
LevelRank(l) == CHOOSE i \in 1..4 : RiskLevels[i] = l
MaxLevel(a, b) == IF LevelRank(b) > LevelRank(a) THEN b ELSE a

\* ------------------------------------------------------------ input spaces
\* Market rows: market_id -> category; "M-GONE" has no row
MarketIds == {"M-POL", "M-GONE"}
MarketCategory(market_id) == IF market_id = "M-POL" THEN "politics" ELSE "none"
Categories == {"politics", "government"}
\* orders: count and price (cents per contract)
OrderChoices == { [count |-> 100, price |-> 50],
                  [count |-> 1000, price |-> 60],
                  [count |-> 2000, price |-> 50] }
\* win_probability in percent; -1 stands for None
NoneValue == 0 - 1
WinProbabilities == {NoneValue, 55, 80}
\* expected_return of an assessed trade, in thousandths
AssessedReturns == {0, 100}
\* risk_profile of the users that send orders
UserProfiles == {"moderate", "aggressive"}
\* total_balance the exchange may report, dollars
BalanceChoices == {10000, 8800, 0}
\* exposures _calculate_category_exposures may find, dollars
ExposureChoices ==
    { [c \in Categories |-> 0],
      [c \in Categories |-> IF c = "politics" THEN 1800 ELSE 0],
      [c \in Categories |-> IF c = "politics" THEN 7200 ELSE 0] }
\* fees of an executed order, dollars
FeeChoices == {0, 250}

UtcDate(t) == t \div SecondsPerDay

\* daily_pnl, daily_trades_count and last_reset_date as one value
Daily == [daily_pnl |-> daily_pnl, daily_trades_count |-> daily_trades_count,
          last_reset_date |-> last_reset_date]

SetDaily(d) ==
    /\ daily_pnl' = d.daily_pnl
    /\ daily_trades_count' = d.daily_trades_count
    /\ last_reset_date' = d.last_reset_date

_reset_daily_metrics(d, t) ==
    IF UtcDate(t) > d.last_reset_date
    THEN [daily_pnl |-> 0, daily_trades_count |-> 0, last_reset_date |-> UtcDate(t)]
    ELSE d

update_daily_pnl(d, pnl_change) == [d EXCEPT !.daily_pnl = @ + pnl_change]

increment_daily_trades(d, t) ==
    [_reset_daily_metrics(d, t) EXCEPT !.daily_trades_count = @ + 1]

RiskCheck(name, passed, level) == [name |-> name, passed |-> passed, level |-> level]

\* d is the daily state after _reset_daily_metrics; a division by a zero
\* portfolio_value raises, and the except branch returns a failed check
_check_daily_loss_limit(d) ==
    LET loss == IF d.daily_pnl < 0 THEN 0 - d.daily_pnl ELSE 0
        limit == ConfigDailyLossLimitPercent
    IN IF d.daily_pnl < 0 /\ portfolio_value = 0
       THEN RiskCheck("daily_loss", FALSE, "medium")
       ELSE IF loss * 100 * 2 > limit * 3 * portfolio_value
       THEN RiskCheck("daily_loss", FALSE, "critical")
       ELSE IF loss * 100 > limit * portfolio_value
       THEN RiskCheck("daily_loss", FALSE, "high")
       ELSE RiskCheck("daily_loss", TRUE, "low")

_check_drawdown_limit ==
    IF current_drawdown.num > DrawdownCritical * current_drawdown.den
    THEN RiskCheck("drawdown", FALSE, "critical")
    ELSE IF current_drawdown.num > DrawdownWarning * current_drawdown.den
    THEN RiskCheck("drawdown", TRUE, "high")
    ELSE RiskCheck("drawdown", TRUE, "low")

_check_position_size_risk(trade_size) ==
    LET max_position_size == ConfigMaxPositionSizePercent
    IN IF portfolio_value = 0
       THEN RiskCheck("position_size", FALSE, "high")
       ELSE IF trade_size * 100 * 2 > max_position_size * 3 * portfolio_value
       THEN RiskCheck("position_size", FALSE, "critical")
       ELSE IF trade_size * 100 > max_position_size * portfolio_value
       THEN RiskCheck("position_size", FALSE, "high")
       ELSE RiskCheck("position_size", TRUE, "low")

\* self.category_exposures.get(category, 0), cents
ExposureOf(category) ==
    IF category \in DOMAIN category_exposures
    THEN category_exposures[category] * CentsPerDollar ELSE 0

\* mutant: a market without a row fails the check
_check_category_exposure_risk_MissingFails(market_id, trade_size) ==
    LET category == MarketCategory(market_id)
        new_exposure == ExposureOf(category) + trade_size
    IN IF category = "none" \/ portfolio_value = 0
       THEN RiskCheck("category", FALSE, "high")
       ELSE IF new_exposure * 100 > ConfigMaxCategoryExposurePercent * portfolio_value
       THEN RiskCheck("category", FALSE, "high")
       ELSE RiskCheck("category", TRUE, "low")

\* a market without a row passes at level LOW (lines 271-277)
_check_category_exposure_risk(market_id, trade_size) ==
    LET category == MarketCategory(market_id)
        new_exposure == ExposureOf(category) + trade_size
    IN IF category = "none"
       THEN RiskCheck("category", TRUE, "low")
       ELSE IF portfolio_value = 0
       THEN RiskCheck("category", FALSE, "high")
       ELSE IF new_exposure * 100 > ConfigMaxCategoryExposurePercent * portfolio_value
       THEN RiskCheck("category", FALSE, "high")
       ELSE RiskCheck("category", TRUE, "low")

\* similar_categories of _check_correlation_risk
SimilarKeys == <<"politics", "finance", "sports", "technology">>
Similar(category) ==
    CASE category = "politics" -> <<"government">>
      [] category = "finance" -> <<"economy", "banking">>
      [] category = "sports" -> <<"entertainment">>
      [] category = "technology" -> <<"innovation">>

RECURSIVE SumExposure(_)
SumExposure(cats) ==
    IF cats = << >> THEN 0 ELSE ExposureOf(Head(cats)) + SumExposure(Tail(cats))

InSeq(x, sq) == \E i \in 1..Len(sq) : sq[i] = x

RECURSIVE SimilarExposure(_, _)
SimilarExposure(keys, new_category) ==
    IF keys = << >> THEN 0
    ELSE (IF new_category = Head(keys) \/ InSeq(new_category, Similar(Head(keys)))
          THEN ExposureOf(Head(keys)) + SumExposure(Similar(Head(keys)))
          ELSE 0)
         + SimilarExposure(Tail(keys), new_category)

_check_correlation_risk(market_id, trade_size) ==
    LET new_category == MarketCategory(market_id)
        total_similar_exposure == SimilarExposure(SimilarKeys, new_category) + trade_size
    IN IF new_category = "none"
       THEN RiskCheck("correlation", TRUE, "low")
       ELSE IF portfolio_value = 0
       THEN RiskCheck("correlation", FALSE, "medium")
       ELSE IF total_similar_exposure * 10 > ConfigMaxCorrelationTenths * portfolio_value
       THEN RiskCheck("correlation", FALSE, "medium")
       ELSE RiskCheck("correlation", TRUE, "low")

\* mutant: the emergency stop is not looked at
SystemIssues_NoStop(stop_active, checks_enabled) ==
    IF ~checks_enabled THEN {"risk_checks_disabled"} ELSE {}

\* the critical_issues that the system flags put on the list (lines 524-529)
SystemIssues(stop_active, checks_enabled) ==
    (IF stop_active THEN {"emergency_stop"} ELSE {})
        \cup (IF ~checks_enabled THEN {"risk_checks_disabled"} ELSE {})

AllPassed(checks) == \A i \in 1..Len(checks) : checks[i].passed

\* mutant: the profile is never found, so no floor applies
BelowConfidenceFloor_NoProfile(win_probability, user_risk_profile) ==
    /\ user_risk_profile \in {}
    /\ win_probability < MinConfidenceThreshold(user_risk_profile)

\* the confidence floor of the profile (lines 570-577)
BelowConfidenceFloor(win_probability, user_risk_profile) ==
    /\ user_risk_profile \in RISK_PROFILES
    /\ win_probability < MinConfidenceThreshold(user_risk_profile)

\* ------------------------------------------------------------ Kelly size
Abs(x) == IF x < 0 THEN 0 - x ELSE x

RECURSIVE Gcd(_, _)
Gcd(a, b) == IF b = 0 THEN a ELSE Gcd(b, a % b)

\* fractions num / den with den > 0, in lowest terms
Frac(n, d) == LET g == Gcd(Abs(n), d) IN [num |-> n \div g, den |-> d \div g]
FracLeq(a, b) == a.num * b.den <= b.num * a.den
FracMin(a, b) == IF FracLeq(a, b) THEN a ELSE b
FracMax(a, b) == IF FracLeq(a, b) THEN b ELSE a

\* kelly_fraction of a profile, in percent; 0.25 for a profile that is not known
KellyFractionPercent(profile) ==
    CASE profile = "conservative" -> 10
      [] profile = "moderate" -> 25
      [] profile = "aggressive" -> 50
      [] OTHER -> 25

\* the assumed average loss of 5%, in thousandths
AverageLossPerMille == 50

\* _calculate_kelly_position_size: expected_return in thousandths,
\* win_probability in percent; the result is a percentage of the portfolio
_calculate_kelly_position_size(expected_return, win_probability, user_risk_profile) ==
    IF win_probability <= 0 \/ win_probability >= 100 THEN Frac(0, 1)
    ELSE LET win_loss_ratio == IF expected_return # 0
                               THEN Frac(Abs(expected_return), AverageLossPerMille)
                               ELSE Frac(1, 1)
             \* W - (1 - W) / R
             kelly_percentage ==
                 FracMax(Frac(0, 1),
                         Frac(win_probability * win_loss_ratio.num
                                 - (100 - win_probability) * win_loss_ratio.den,
                              100 * win_loss_ratio.num))
             \* kelly_percentage * kelly_fraction * 100
             position_size_percentage ==
                 Frac(kelly_percentage.num * KellyFractionPercent(user_risk_profile),
                      kelly_percentage.den)
         IN FracMin(position_size_percentage, Frac(ConfigMaxPositionSizePercent, 1))

\* ------------------------------------------------------- recommendations
\* one sentence of the recommendations list: what it says and, for a
\* "High priority" line, the check whose message it carries
Recommendation(text, check) == [text |-> text, check |-> check]

\* the "High priority: ..." lines, one per failed check of level HIGH
RECURSIVE HighPriority(_)
HighPriority(failed_checks) ==
    IF failed_checks = << >> THEN << >>
    ELSE (IF Head(failed_checks).level = "high"
          THEN <<Recommendation("high_priority", Head(failed_checks).name)>>
          ELSE << >>) \o HighPriority(Tail(failed_checks))

FailedChecks(risk_checks) == SelectSeq(risk_checks, LAMBDA c : ~c.passed)

\* _generate_trade_recommendations: trade_size in cents, kelly_recommended_size
\* a fraction (percent), expected_return in thousandths.  A portfolio_value of
\* zero makes the first statement raise: the except branch appends its line.
_generate_trade_recommendations(risk_checks, trade_size, kelly_recommended_size, expected_return) ==
    LET failed_checks == FailedChecks(risk_checks)
        r1 == IF trade_size * 100 > 5 * portfolio_value
              THEN <<Recommendation("reduce_position_size", "")>> ELSE << >>
        r2 == IF /\ kelly_recommended_size.num > 0
                 /\ trade_size * 100 * kelly_recommended_size.den
                       > kelly_recommended_size.num * portfolio_value
              THEN <<Recommendation("kelly_recommends", "")>> ELSE << >>
        r3 == HighPriority(failed_checks)
        r4 == IF expected_return < 50
              THEN <<Recommendation("expected_return_low", "")>> ELSE << >>
        r5 == IF Len(failed_checks) > 2
              THEN <<Recommendation("multiple_risk_issues", "")>> ELSE << >>
        recommendations == r1 \o r2 \o r3 \o r4 \o r5
    IN IF portfolio_value = 0
       THEN <<Recommendation("error_generating", "")>>
       ELSE IF recommendations = << >>
       THEN <<Recommendation("acceptable", "")>>
       ELSE recommendations

\* assess_trade_risk, on the daily state d that _reset_daily_metrics leaves.
\* win_probability None makes `win_probability * 100` raise: the except
\* branch of lines 604-619 answers.
assess_trade_risk(d, market_id, count, price, expected_return, win_probability, user_risk_profile) ==
    LET trade_size == count * price
        daily_loss_check == _check_daily_loss_limit(d)
        drawdown_check == _check_drawdown_limit
        position_size_check == _check_position_size_risk(trade_size)
        category_risk == _check_category_exposure_risk(market_id, trade_size)
        correlation_risk == _check_correlation_risk(market_id, trade_size)
        risk_checks == <<daily_loss_check, drawdown_check, position_size_check,
                         category_risk, correlation_risk>>
        critical_issues ==
            SystemIssues(emergency_stop_active, risk_checks_enabled)
                \cup (IF ~daily_loss_check.passed /\ daily_loss_check.level = "critical"
                      THEN {"daily_loss"} ELSE {})
                \cup (IF ~drawdown_check.passed /\ drawdown_check.level = "critical"
                      THEN {"drawdown"} ELSE {})
        l1 == IF position_size_check.passed THEN "low" ELSE position_size_check.level
        l2 == IF category_risk.passed THEN l1 ELSE MaxLevel(l1, category_risk.level)
        l3 == IF correlation_risk.passed THEN l2 ELSE MaxLevel(l2, correlation_risk.level)
        approved0 == critical_issues = {} /\ AllPassed(risk_checks)
        raised == user_risk_profile \in RISK_PROFILES /\ win_probability = NoneValue
        kelly_recommended_size ==
            _calculate_kelly_position_size(expected_return, win_probability,
                                           user_risk_profile)
        readings == [win_probability |-> win_probability,
                     user_risk_profile |-> user_risk_profile]
    IN IF raised
       THEN [kind |-> "assessment", approved |-> FALSE, risk_level |-> "critical",
             risk_checks |-> <<RiskCheck("error", FALSE, "critical")>>,
             recommendations |-> <<Recommendation("fix_risk_assessment", "")>>,
             readings |-> readings]
       ELSE [kind |-> "assessment",
             approved |-> approved0
                          /\ ~BelowConfidenceFloor(win_probability, user_risk_profile),
             risk_level |-> l3,
             risk_checks |-> risk_checks,
             recommendations |->
                 _generate_trade_recommendations(risk_checks, trade_size,
                                                 kelly_recommended_size, expected_return),
             readings |-> readings]

\* ----------------------------------------------------------- the endpoints
\* POST /risk/emergency-stop: set_emergency_stop(active, reason)
SetEmergencyStop ==
    /\ \E active \in BOOLEAN : emergency_stop_active' = active
    /\ Forget
    /\ UNCHANGED <<callVars, clockVars, gateState, risk_checks_enabled, daily_pnl,
                   daily_trades_count, last_reset_date, portfolio_value,
                   max_portfolio_value, current_drawdown, category_exposures>>

\* get_risk_metrics: _update_portfolio_value and _calculate_category_exposures
GetRiskMetrics ==
    /\ \E balance \in BalanceChoices :
          LET value == balance * CentsPerDollar
              peak == IF value > max_portfolio_value THEN value ELSE max_portfolio_value
          IN /\ portfolio_value' = value
             /\ max_portfolio_value' = peak
             /\ current_drawdown' =
                   IF peak > 0 THEN [num |-> (peak - value) * 100, den |-> peak]
                   ELSE current_drawdown
    /\ \E e \in ExposureChoices : category_exposures' = e
    /\ Forget
    /\ UNCHANGED <<callVars, clockVars, gateState, emergency_stop_active, risk_checks_enabled,
                   daily_pnl, daily_trades_count, last_reset_date>>

\* POST /risk/assess, expected_return left at its default
AssessRisk ==
    /\ \E m \in MarketIds, o \in OrderChoices, w \in WinProbabilities,
          p \in UserProfiles :
          LET d == _reset_daily_metrics(Daily, now)
          IN /\ assessment' = assess_trade_risk(d, m, o.count, o.price, 0, w, p)
             /\ SetDaily(d)
    /\ order' = NoOrder
    /\ ForgetGate
    /\ UNCHANGED <<callVars, clockVars, gateState, emergency_stop_active, risk_checks_enabled,
                   portfolio_value, max_portfolio_value, current_drawdown,
                   category_exposures>>

\* POST /orders: place_order(order, auto_risk_check).  fees is the fee that
\* kalshi_client.place_order reported, None when it raised (execute_trade
\* then returns None).  raised: an Exception other than HTTPException left
\* the assessment step (lines 125-153) before assess_trade_risk did anything;
\* lines 167-170 log it, risk_assessment stays None and line 173 is next.
place_order(m, o, er, w, p, auto_risk_check, raised, fees) ==
    LET d0 == Daily
        assessed == auto_risk_check /\ ~raised
        d1 == IF assessed THEN _reset_daily_metrics(d0, now) ELSE d0
        a == IF assessed
             THEN assess_trade_risk(d1, m, o.count, o.price, er, w, p)
             ELSE NoAssessment
        rejected == assessed /\ ~a.approved
        \* execute_trade, then lines 215-216
        d2 == increment_daily_trades(d1, now)
        d3 == increment_daily_trades(update_daily_pnl(d2, 0 - fees * CentsPerDollar), now)
        outcome == IF rejected THEN "rejected"
                   ELSE IF fees = NoneValue THEN "failed" ELSE "executed"
    IN /\ assessment' = a
       /\ order' = [kind |-> outcome, auto_risk_check |-> auto_risk_check,
                    stop_active |-> emergency_stop_active]
       /\ SetDaily(IF outcome = "executed" THEN d3 ELSE d1)

\* an order with the automatic risk assessment
PlaceOrderChecked ==
    /\ daily_trades_count + 2 <= MaxDailyTrades
    /\ \E m \in MarketIds, o \in OrderChoices, fees \in FeeChoices \cup {NoneValue} :
          \/ \E w \in WinProbabilities, p \in UserProfiles :
                place_order(m, o, 0, w, p, TRUE, FALSE, fees)
          \* the assessment step raised: nothing was read of w and p
          \/ place_order(m, o, 0, 50, "moderate", TRUE, TRUE, fees)
    /\ ForgetGate
    /\ UNCHANGED <<callVars, clockVars, gateState, emergency_stop_active, risk_checks_enabled,
                   portfolio_value, max_portfolio_value, current_drawdown,
                   category_exposures>>

\* an order with auto_risk_check=false
PlaceOrderUnchecked ==
    /\ daily_trades_count + 2 <= MaxDailyTrades
    /\ \E m \in MarketIds, o \in OrderChoices, fees \in FeeChoices \cup {NoneValue} :
          place_order(m, o, 0, 50, "moderate", FALSE, FALSE, fees)
    /\ ForgetGate
    /\ UNCHANGED <<callVars, clockVars, gateState, emergency_stop_active, risk_checks_enabled,
                   portfolio_value, max_portfolio_value, current_drawdown,
                   category_exposures>>

\* RiskManager.__init__
RMInit ==
    /\ emergency_stop_active = FALSE
    /\ risk_checks_enabled = TRUE
    /\ daily_pnl = 0
    /\ daily_trades_count = 0
    /\ last_reset_date = UtcDate(now)
    /\ portfolio_value = DefaultPortfolioValue * CentsPerDollar
    /\ max_portfolio_value = DefaultPortfolioValue * CentsPerDollar
    /\ current_drawdown = [num |-> 0, den |-> 1]
    /\ category_exposures = [c \in Categories |-> 0]
    /\ assessment = NoAssessment
    /\ order = NoOrder

\* the gate is watched from shortly before the Pacific midnight
Init ==
    /\ now = StartTime
    /\ ticks = 0
    /\ GateInit
    /\ RMInit

GateNext == GateOpen \/ Heartbeat \/ Tick \/ LedgerAppend \/ SeedDayState

SpecGate == Init /\ [][GateNext]_vars

\* the heartbeat alone, every TickSeconds or less often
BeatNext == HeartbeatWatched \/ Tick \/ LedgerAppendAgain \/ SeedDayState

SpecBeat == Init /\ [][BeatNext]_vars

\* the heartbeat while a loss is made and won back
\* settings.TRADING_MODE is given another value over the same database (the
\* service is started again with it, or it is set as the tests set it)
SetTradingMode ==
    /\ \E mode \in {"live", "paper"} \ {trading_mode} : trading_mode' = mode
    /\ Forget
    /\ UNCHANGED <<callVars, clockVars, rmVars, day_state, ledger, allowed_spend>>

ModeNext == Heartbeat \/ Tick \/ LedgerSwing \/ SeedDayState \/ SetTradingMode

SpecMode == Init /\ [][ModeNext]_vars

CalmNext == Heartbeat \/ Tick \/ LedgerSwing \/ SeedDayState

SpecCalm == Init /\ [][CalmNext]_vars

\* the risk manager is watched from shortly before the UTC midnight
InitRM ==
    /\ now = 2 * SecondsPerDay - TickSeconds
    /\ ticks = MaxTicks - TicksAroundUtcMidnight
    /\ GateInit
    /\ trading_mode = "live"
    /\ RMInit

RMNext ==
    \/ SetEmergencyStop \/ GetRiskMetrics \/ AssessRisk
    \/ PlaceOrderChecked \/ PlaceOrderUnchecked \/ Tick

SpecRM == InitRM /\ [][RMNext]_vars

\* ------------------------------------------------- functions on their own
\* expected_return of a trade, in thousandths
ExpectedReturns == {0 - 100, 0, 20, 50, 100, 500}
\* win_probability, in percent
KellyProbabilities == {0, 1, 25, 50, 60, 75, 99, 100}

\* _calculate_kelly_position_size is applied to two win probabilities
ApplyKelly ==
    /\ \E er \in ExpectedReturns, profile \in RISK_PROFILES,
          p1 \in KellyProbabilities, p2 \in KellyProbabilities :
          /\ p1 <= p2
          /\ kelly' = [kind |-> "sized", expected_return |-> er,
                       user_risk_profile |-> profile, p1 |-> p1, p2 |-> p2,
                       size1 |-> _calculate_kelly_position_size(er, p1, profile),
                       size2 |-> _calculate_kelly_position_size(er, p2, profile)]
    /\ effective' = NotApplied
    /\ applied' = NotApplied
    /\ UNCHANGED <<sess, streak, watchVars, clockVars, gateState, rmVars, call, result,
                   assessment, order>>

\* ------------------------------------------------- merge_effective_rules
\* a nullable value: << >> is None, <<v>> is the value v
None == << >>
Some(v) == <<v>>

\* float(x) of a Decimal
Float(x) == [float |-> x]

\* UserRules rows (update_rules stores whatever the payload names, null
\* included); numbers are in ten-thousandths, as Numeric(10, 4) keeps them
UserRulesChoices ==
    [alerts_enabled_default : {Some(TRUE), Some(FALSE)},
     edge_threshold_default : {Some(300), None},
     min_liquidity : {Some(50000), None},
     max_spread : {Some(200), None},
     channels_json : {Some("email"), None}]

\* WatchlistOverride rows of the user
WatchlistOverrideChoices ==
    [alerts_enabled : {Some(FALSE), None},
     edge_threshold : {Some(500), None},
     min_liquidity : {Some(80000), None},
     max_spread : {Some(100), None},
     channels_json : {Some("sms"), None}]

\* WatchlistOverride(user_id=..., market_ticker=""): every other column is None
EmptyOverride ==
    [alerts_enabled |-> None, edge_threshold |-> None, min_liquidity |-> None,
     max_spread |-> None, channels_json |-> None]

\* float(x) if x is not None else None
FloatOrNone(x) == IF x # None THEN Some(Float(x[1])) ELSE None

\* merge_effective_rules(user_rules, override): override is None or Some(row).
\* float(None) raises TypeError.
merge_effective_rules(user_rules, override) ==
    LET o == IF override # None THEN override[1] ELSE EmptyOverride
    IN IF o.edge_threshold = None /\ user_rules.edge_threshold_default = None
       THEN [kind |-> "raised", error |-> "TypeError"]
       ELSE [kind |-> "merged",
             alerts_enabled |-> IF o.alerts_enabled # None THEN o.alerts_enabled
                                ELSE user_rules.alerts_enabled_default,
             edge_threshold |-> IF o.edge_threshold # None
                                THEN Some(Float(o.edge_threshold[1]))
                                ELSE Some(Float(user_rules.edge_threshold_default[1])),
             min_liquidity |-> IF o.min_liquidity # None
                               THEN Some(Float(o.min_liquidity[1]))
                               ELSE FloatOrNone(user_rules.min_liquidity),
             max_spread |-> IF o.max_spread # None
                            THEN Some(Float(o.max_spread[1]))
                            ELSE FloatOrNone(user_rules.max_spread),
             channels |-> IF o.channels_json # None THEN o.channels_json
                          ELSE user_rules.channels_json]

\* watchlist_payload merges the rules of the user with the override of an entry
ApplyMerge ==
    /\ \E user_rules \in UserRulesChoices,
          override \in {None} \cup {Some(o) : o \in WatchlistOverrideChoices} :
          effective' = [kind |-> "merge", user_rules |-> user_rules,
                        override |-> override,
                        returned |-> merge_effective_rules(user_rules, override)]
    /\ kelly' = NotApplied
    /\ applied' = NotApplied
    /\ UNCHANGED <<sess, streak, watchVars, clockVars, gateState, rmVars, call, result,
                   assessment, order>>

\* ------------------------------------------------- the breach classification
\* realized P&L of a day, in cents, around the two thresholds
RealizedChoices ==
    {0 - 30005, 0 - 30000, 0 - 29996, 0 - 29995, 0 - 29994, 0 - 20005, 0 - 20000,
     0 - 19995, 0 - 19994, 0 - 3000, 0 - 2000, 0 - 1999, 0 - 1, 0, 1500, 30000}
\* start_equity of a row, in dollars
EquityChoices == {DefaultStartEquity} \cup SeedEquity

\* risk_gate, lines 137-142, applied to a realized P&L and a start_equity
ApplyBreach ==
    /\ \E r \in RealizedChoices, q \in EquityChoices :
          applied' = [kind |-> "breach_state", realized_today |-> r,
                      start_equity |-> q * CentsPerDollar,
                      drawdown_pct |-> DrawdownPct(r, q * CentsPerDollar),
                      returned |-> BreachState(DrawdownPct(r, q * CentsPerDollar))]
    /\ kelly' = NotApplied
    /\ effective' = NotApplied
    /\ UNCHANGED <<sess, streak, watchVars, clockVars, gateState, rmVars, call, result,
                   assessment, order>>

FnNext == ApplyKelly \/ ApplyMerge \/ ApplyBreach

SpecFn == InitRM /\ [][FnNext]_vars

\* assess_trade_risk with arguments of the caller's choice; `call` keeps the
\* arguments beside the assessment
AssessTrade ==
    /\ \E m \in MarketIds, o \in OrderChoices, er \in AssessedReturns,
          w \in WinProbabilities, p \in UserProfiles :
          LET d == _reset_daily_metrics(Daily, now)
          IN /\ assessment' = assess_trade_risk(d, m, o.count, o.price, er, w, p)
             /\ call' = [kind |-> "assess", market_id |-> m,
                         trade_size |-> o.count * o.price, expected_return |-> er]
             /\ SetDaily(d)
    /\ result' = NoResult
    /\ order' = NoOrder
    /\ UNCHANGED <<callVars, clockVars, gateState, emergency_stop_active, risk_checks_enabled,
                   portfolio_value, max_portfolio_value, current_drawdown,
                   category_exposures>>

AssessNext == SetEmergencyStop \/ GetRiskMetrics \/ AssessTrade \/ Tick

SpecAssess == InitRM /\ [][AssessNext]_vars

\* ---------------------------------------------------------- the watchlist
WatchTickers == {"A", "B"}
\* expires_at of a row, relative to the UTC midnight the clock crosses
ExpiryOffsets == {0 - 3600, 0 - TickSeconds, 0, TickSeconds, 7200}
ExpiresAt == {2 * SecondsPerDay + x : x \in ExpiryOffsets}

\* add_to_watchlist for a market the user has access to, below the cap:
\* the row of the market is created, or tracked again with the new expiry
TrackMarket ==
    /\ \E t \in WatchTickers, x \in ExpiresAt :
          watchlist' = [k \in DOMAIN watchlist \cup {t} |->
                           IF k = t THEN x ELSE watchlist[k]]
    /\ swept' = NotApplied
    /\ Forget
    /\ UNCHANGED <<sess, streak, kelly, effective, applied, clockVars, gateState, rmVars>>

\* mutant: a row that expires at `now` is kept
Expired_Strict(expires_at, t) == expires_at < t

\* Watchlist.expires_at <= now
Expired(expires_at, t) == expires_at <= t

\* cleanup_expired(db, now): the rows left and the count returned
cleanup_expired(rows, t) ==
    LET expired == {k \in DOMAIN rows : Expired(rows[k], t)}
    IN [rows |-> [k \in DOMAIN rows \ expired |-> rows[k]],
        count |-> Cardinality(expired)]

\* watchlist_expiry_job, or any caller of cleanup_expired
CleanupExpired ==
    /\ watchlist' = cleanup_expired(watchlist, now).rows
    /\ swept' = [kind |-> "cleanup", at |-> now,
                 count |-> cleanup_expired(watchlist, now).count]
    /\ Forget
    /\ UNCHANGED <<sess, streak, kelly, effective, applied, clockVars, gateState, rmVars>>

WatchNext == TrackMarket \/ CleanupExpired \/ Tick

SpecWatch == InitRM /\ [][WatchNext]_vars

\* ============================================ risk_gate, commit by commit
\* A worker's call runs in its own Session; what it does between two
\* db.commit() is one step.  day_local is the primary key of day_state (with
\* user_id), so the table holds one row per local day and an INSERT of a
\* second one raises IntegrityError.  intended_action, intended_spend and the
\* position count play no part before the decision and are drawn there.

\* mutant: the filter on date_local never matches
QueryDayState_NoMatch(w) ==
    /\ sess[w] = Idle
    /\ sess' = [sess EXCEPT ![w] = [pc |-> "insert", t |-> now]]
    /\ Forget
    /\ UNCHANGED <<fnVars, streak, clockVars, gateState, rmVars>>

\* _get_day_state, lines 40-45: the query
QueryDayState(w) ==
    /\ sess[w] = Idle
    /\ sess' = [sess EXCEPT ![w] =
                   [pc |-> IF _local_day(now) \in DOMAIN day_state
                           THEN "have" ELSE "insert",
                    t |-> now]]
    /\ Forget
    /\ UNCHANGED <<fnVars, streak, clockVars, gateState, rmVars>>

\* _get_day_state, lines 46-59: db.add, db.commit, db.refresh
InsertDayState(w) ==
    /\ sess[w].pc = "insert"
    /\ IF _local_day(sess[w].t) \in DOMAIN day_state
       THEN /\ sess' = [sess EXCEPT ![w] = [pc |-> "failed", error |-> "IntegrityError"]]
            /\ UNCHANGED day_state
       ELSE /\ day_state' = PutDayState(_local_day(sess[w].t), NewDayState(sess[w].t))
            /\ sess' = [sess EXCEPT ![w].pc = "have"]
    /\ Forget
    /\ UNCHANGED <<fnVars, streak, clockVars, rmVars, trading_mode, ledger, allowed_spend>>

\* risk_gate, lines 124-135: the mode test, then realized_pnl_today
RefreshRealized(w) ==
    /\ sess[w].pc = "have"
    /\ LET d == _local_day(sess[w].t)
           realized_today == _aggregate_realized(sess[w].t)
       IN IF trading_mode # "live"
          THEN /\ sess' = [sess EXCEPT ![w] =
                              [pc |-> "done", reason_code |-> "TRADING_DISABLED",
                               kill_state |-> KillNone]]
               /\ UNCHANGED day_state
          ELSE /\ day_state' = PutDayState(d, [day_state[d] EXCEPT
                                                 !.realized_pnl_today = realized_today])
               /\ sess' = [sess EXCEPT ![w] =
                              [pc |-> "refreshed", t |-> sess[w].t,
                               realized_today |-> realized_today]]
    /\ Forget
    /\ UNCHANGED <<fnVars, streak, clockVars, rmVars, trading_mode, ledger, allowed_spend>>

\* risk_gate, line 137: the commit of line 135 has expired the row the
\* Session holds, so reading start_equity loads it again
ReloadDayState(w) ==
    /\ sess[w].pc = "refreshed"
    /\ sess' = [sess EXCEPT ![w] =
                   [pc |-> "loaded", t |-> sess[w].t,
                    realized_today |-> sess[w].realized_today,
                    row |-> day_state[_local_day(sess[w].t)]]]
    /\ Forget
    /\ UNCHANGED <<fnVars, streak, clockVars, gateState, rmVars>>

\* the UPDATE a commit sends: the columns the call has changed on the row it
\* holds, whatever the table holds by now
Flush(current, held, changed) ==
    [current EXCEPT
        !.kill_reason = IF changed.kill_reason # held.kill_reason
                        THEN changed.kill_reason ELSE @,
        !.kill_state = IF changed.kill_state # held.kill_state
                       THEN changed.kill_state ELSE @]

\* risk_gate, lines 137-144: breach detection and _update_hysteresis on the
\* row the Session holds, then db.commit()
CommitHysteresis(w) ==
    /\ sess[w].pc = "loaded"
    /\ LET d == _local_day(sess[w].t)
           held == sess[w].row
           breach_state == BreachState(DrawdownPct(sess[w].realized_today,
                                                   held.start_equity))
           row2 == _update_hysteresis(held, breach_state, sess[w].t)
       IN /\ day_state' = PutDayState(d, Flush(day_state[d], held, row2))
          /\ sess' = [sess EXCEPT ![w] =
                         [pc |-> "decide", t |-> sess[w].t,
                          kill_state |-> row2.kill_state]]
    /\ Forget
    /\ UNCHANGED <<fnVars, streak, clockVars, rmVars, trading_mode, ledger, allowed_spend>>

\* risk_gate, lines 148-191: the decision, updated_at, the GateResult
FinishGate(w) ==
    /\ sess[w].pc = "decide"
    /\ \E a \in Actions, s \in SpendChoices, p \in PositionCounts :
          LET d == _local_day(sess[w].t)
              row == day_state[d]
              dec == Decide(a, s * CentsPerDollar, row.daily_spend,
                            _aggregate_spend(sess[w].t, "TICK"), p, sess[w].kill_state)
          IN /\ day_state' = PutDayState(d, [row EXCEPT !.updated_at = sess[w].t])
             /\ sess' = [sess EXCEPT ![w] =
                            [pc |-> "done", reason_code |-> dec.reason,
                             kill_state |-> sess[w].kill_state]]
    /\ Forget
    /\ UNCHANGED <<fnVars, streak, clockVars, rmVars, trading_mode, ledger, allowed_spend>>

\* the caller has the GateResult, or the exception
ReturnGate(w) ==
    /\ sess[w].pc \in {"done", "failed"}
    /\ sess' = [sess EXCEPT ![w] = Idle]
    /\ Forget
    /\ UNCHANGED <<fnVars, streak, clockVars, gateState, rmVars>>

\* the workers start shortly before the Pacific midnight
InitDay ==
    /\ now = SecondsPerDay + PacificOffsetSeconds - TicksOfRace * TickSeconds
    /\ ticks = MaxTicks - 2 * TicksOfRace
    /\ GateInit
    /\ RMInit

DayNext ==
    \/ \E w \in Workers :
          \/ QueryDayState(w) \/ InsertDayState(w) \/ RefreshRealized(w)
          \/ ReloadDayState(w) \/ CommitHysteresis(w) \/ FinishGate(w) \/ ReturnGate(w)
    \/ Tick \/ LedgerAppend \/ SeedDayState

SpecDay == InitDay /\ [][DayNext]_vars

\* the same, one call after another
QueryDayStateAlone(w) ==
    /\ \A o \in Workers : sess[o] = Idle
    /\ QueryDayState(w)

DaySeqNext ==
    \/ \E w \in Workers :
          \/ QueryDayStateAlone(w) \/ InsertDayState(w) \/ RefreshRealized(w)
          \/ ReloadDayState(w) \/ CommitHysteresis(w) \/ FinishGate(w) \/ ReturnGate(w)
    \/ Tick \/ LedgerAppend \/ SeedDayState

SpecDaySeq == InitDay /\ [][DaySeqNext]_vars

\* ------------------------------------------- the daily P&L of RiskManager
\* update_daily_pnl calls are logged at most this many times
MaxPnlChanges == 2

\* the update_daily_pnl calls made so far: the UTC date and the pnl_change
PnlLog == IF applied.kind = "update_daily_pnl" THEN applied.changes ELSE << >>

RECURSIVE SumOn(_, _)
\* the sum of the logged changes applied on UTC date `date`
SumOn(date, log) ==
    IF log = << >> THEN 0
    ELSE (IF Head(log).date = date THEN Head(log).pnl_change ELSE 0)
            + SumOn(date, Tail(log))

\* place_order up to the return of portfolio_manager.execute_trade, which
\* calls increment_daily_trades; the request then saves the Trade row
ExecuteTrade(w) ==
    /\ sess[w] = Idle
    /\ daily_trades_count + 2 <= MaxDailyTrades
    /\ Len(PnlLog) < MaxPnlChanges
    /\ \E fees \in FeeChoices :
          sess' = [sess EXCEPT ![w] = [pc |-> "executed", fees |-> fees]]
    /\ SetDaily(increment_daily_trades(Daily, now))
    /\ Forget
    /\ UNCHANGED <<fnVars, streak, clockVars, gateState, emergency_stop_active,
                   risk_checks_enabled, portfolio_value, max_portfolio_value,
                   current_drawdown, category_exposures>>

\* place_order, lines 215-216: update_daily_pnl(-fees), then
\* increment_daily_trades, at the time the request has reached by then
RecordExecution(w) ==
    /\ sess[w] # Idle
    /\ sess[w].pc = "executed"
    /\ LET pnl_change == 0 - sess[w].fees * CentsPerDollar
       IN /\ SetDaily(increment_daily_trades(update_daily_pnl(Daily, pnl_change), now))
          /\ applied' = [kind |-> "update_daily_pnl",
                         changes |-> Append(PnlLog, [date |-> UtcDate(now),
                                                     pnl_change |-> pnl_change])]
    /\ sess' = [sess EXCEPT ![w] = Idle]
    /\ Forget
    /\ UNCHANGED <<kelly, effective, watchVars, streak, clockVars, gateState,
                   emergency_stop_active, risk_checks_enabled, portfolio_value,
                   max_portfolio_value, current_drawdown, category_exposures>>

DailyNext ==
    \/ \E w \in Workers : ExecuteTrade(w) \/ RecordExecution(w)
    \/ AssessRisk \/ Tick

SpecDaily == InitRM /\ [][DailyNext]_vars

\* ====================================================== claims: risk_gate
\* the row of the current local day, when there is one
HasToday == _local_day(now) \in DOMAIN day_state
Today == day_state[_local_day(now)]
\* the step is an evaluation of risk_gate
Evaluated == call'.kind # "none"
IsOpenCall == call.kind = "gate" /\ call.intended_action = "open"

\* C1: with trading live, an "open" evaluation whose daily_spend +
\* intended_spend exceeds DAILY_SPEND_CAP is denied with reason
\* DAILY_CAP_REACHED, whatever the kill state and the open-position count.
C1_DailyCapReason ==
    (IsOpenCall /\ call.daily_spend + call.intended_spend > 100 * CentsPerDollar)
        => (result.allow_new_open = FALSE /\ result.reason_code = "DAILY_CAP_REACHED")

\* C2: an "open" evaluation that is allowed respects the daily cap, the
\* per-market cap, the position limit of the committed kill state (5 under
\* SOFT, otherwise 8), and the committed kill state is not HARD.
C2_AllowedRespectsLimits ==
    (IsOpenCall /\ result.allow_new_open)
        => /\ call.daily_spend + call.intended_spend <= 100 * CentsPerDollar
           /\ call.per_market_spend + call.intended_spend <= 40 * CentsPerDollar
           /\ call.open_positions < (IF result.kill_state = KillSoft THEN 5 ELSE 8)
           /\ result.kill_state # KillHard

C2_Witness ==
    /\ IsOpenCall /\ result.allow_new_open
    /\ result.kill_state = KillSoft

\* C3: within one local day the persisted kill_state of a row never
\* decreases in the order NONE < SOFT < HARD.
C3_KillStateMonotone ==
    [][\A d \in DOMAIN day_state :
          KillRank(day_state'[d].kill_state) >= KillRank(day_state[d].kill_state)]_vars

\* the first of two calls of C4 has run: kill_state NONE, and the only marker
\* is the hard_breach it has written
HardSeenOnce ==
    /\ HasToday
    /\ Today.kill_state = KillNone
    /\ Len(Today.kill_reason) = 1
    /\ Today.kill_reason[1].label = "hard_breach"
    /\ now - Today.kill_reason[1].ts >= 60

Fresh == ~HasToday \/ (Today.kill_state = KillNone /\ Today.kill_reason = << >>)

HardKillReported ==
    /\ result'.kill_state = KillHard
    /\ result'.allow_new_open = FALSE
    /\ result'.reason_code = "KILL_HARD"

NoLimitViolated(c, kill_state) ==
    /\ c.daily_spend + c.intended_spend <= 100 * CentsPerDollar
    /\ c.per_market_spend + c.intended_spend <= 40 * CentsPerDollar
    /\ c.open_positions < (IF kill_state = KillSoft THEN 5 ELSE 8)

\* kill_state is NONE and a soft_breach marker is at least the window old
SoftSeenBefore ==
    /\ HasToday
    /\ Today.kill_state = KillNone
    /\ \E i \in 1..Len(Today.kill_reason) :
          /\ Today.kill_reason[i].label = "soft_breach"
          /\ now - Today.kill_reason[i].ts >= 60

NoSoftMarker ==
    ~HasToday \/ (/\ Today.kill_state = KillNone
                  /\ \A i \in 1..Len(Today.kill_reason) :
                        Today.kill_reason[i].label # "soft_breach")

SoftThrottled ==
    /\ result'.allow_new_open
    /\ result'.size_multiplier = 5
    /\ result'.reason_code = "SOFT_THROTTLE"

\* C5: an "open" evaluation under committed SOFT that violates no cap and no
\* position limit is allowed with size_multiplier 0.5 and SOFT_THROTTLE; a
\* SOFT-level drawdown first seen at t0 gives kill_state NONE at t0 and that
\* SOFT result at t0 + 65 s.
C5_SoftThrottle ==
    [][(Evaluated /\ trading_mode = "live")
          => /\ (/\ call'.intended_action = "open"
                 /\ result'.kill_state = KillSoft
                 /\ NoLimitViolated(call', KillSoft)) => SoftThrottled
             /\ (NoSoftMarker /\ call'.breach_state = KillSoft)
                    => result'.kill_state = KillNone
             /\ (/\ SoftSeenBefore
                 /\ call'.breach_state = KillSoft
                 /\ call'.intended_action = "open"
                 /\ NoLimitViolated(call', KillSoft))
                    => (result'.kill_state = KillSoft /\ SoftThrottled)]_vars

C5_Witness ==
    /\ IsOpenCall
    /\ call.kill_before = KillNone
    /\ call.breach_state = KillSoft
    /\ result.kill_state = KillSoft
    /\ result.reason_code = "SOFT_THROTTLE"

\* C6: when the trading mode is not "live", every evaluation is denied with
\* TRADING_DISABLED and leaves every existing day_state row as it was.
C6_TradingDisabled ==
    [][(Evaluated /\ trading_mode # "live")
          => /\ result'.allow_new_open = FALSE
             /\ result'.reason_code = "TRADING_DISABLED"
             /\ \A d \in DOMAIN day_state : day_state'[d] = day_state[d]]_vars

\* a disabled evaluation has run on a row whose realized_pnl_today is stale
C6_Witness ==
    /\ call.kind = "disabled"
    /\ result.reason_code = "TRADING_DISABLED"
    /\ HasToday
    /\ Today.realized_pnl_today # _aggregate_realized(now)

\* C10: the intended_spend of the "open" evaluations that risk_gate allows
\* within one local day never adds up to more than DAILY_SPEND_CAP.
C10_AllowedWithinDailyCap == allowed_spend <= 100 * CentsPerDollar

\* ================================================== claims: RiskManager
IsAssessment == assessment.kind = "assessment"

\* C7: while the emergency stop is active, every assess_trade_risk call
\* returns approved=False, whatever its arguments.
C7_StopBlocksApproval ==
    (IsAssessment /\ emergency_stop_active) => assessment.approved = FALSE

\* an assessment under the emergency stop that nothing else would reject
C7_Witness ==
    /\ IsAssessment
    /\ emergency_stop_active
    /\ AllPassed(assessment.risk_checks)
    /\ assessment.readings.win_probability >= 60

\* C8: while the emergency stop is active, no place_order request reaches
\* portfolio_manager.execute_trade, auto_risk_check=False included.
C8_StopBlocksOrders ==
    order.kind = "executed" => ~emergency_stop_active

\* C9: approved is True exactly when the emergency stop is inactive, risk
\* checks are enabled, every returned RiskCheck passed, and
\* win_probability * 100 reaches the min_confidence_threshold of the profile.
C9_ApprovedIff ==
    IsAssessment =>
        (assessment.approved
            <=> /\ ~emergency_stop_active
                /\ risk_checks_enabled
                /\ \A i \in 1..Len(assessment.risk_checks) :
                      assessment.risk_checks[i].passed
                /\ assessment.readings.win_probability # NoneValue
                /\ assessment.readings.win_probability >=
                      (CASE assessment.readings.user_risk_profile = "conservative" -> 75
                         [] assessment.readings.user_risk_profile = "moderate" -> 60
                         [] assessment.readings.user_risk_profile = "aggressive" -> 50))

\* an assessment that only the confidence floor rejects
C9_Witness ==
    /\ IsAssessment
    /\ ~assessment.approved
    /\ ~emergency_stop_active
    /\ AllPassed(assessment.risk_checks)
    /\ assessment.readings.win_probability = 55
    /\ assessment.readings.user_risk_profile = "moderate"

\* ============================================== claims: the day_state row
\* C11: with calls running one after another, _get_day_state creates the row
\* of a local day only when there is none and otherwise hands back the row
\* that exists: no call fails on a second insert, no row disappears, and no
\* step of risk_gate changes the start_equity of a row.
C11_RowCreatedOnce ==
    [][/\ \A d \in DOMAIN day_state :
            /\ d \in DOMAIN day_state'
            /\ day_state'[d].start_equity = day_state[d].start_equity
       /\ \A w \in Workers :
            /\ sess'[w].pc # "failed"
            /\ (sess[w] = Idle /\ sess'[w] # Idle /\ HasToday)
                  => (sess'[w].pc = "have" /\ day_state' = day_state)]_vars

\* a call has found a row that an earlier evaluation has worked on, and that
\* row still has the start_equity it was inserted with
C11_Witness ==
    \E w \in Workers :
        /\ sess[w].pc = "have"
        /\ HasToday
        /\ Today.kill_reason # << >>
        /\ Today.updated_at < sess[w].t
        /\ Today.start_equity = 1000 * CentsPerDollar

\* C12: when two risk_gate calls of the same local day overlap and the row
\* does not exist yet, both complete: neither fails because the other has
\* inserted the row first.
C12_NoCallFails ==
    \A w \in Workers : sess[w].pc # "failed"

\* ==================================================== claims: Kelly size
\* C13: for a fixed expected_return and risk profile the size returned by
\* _calculate_kelly_position_size does not decrease when win_probability
\* grows, over the whole range 0..1 with both end points.
C13_KellyMonotone ==
    kelly.kind = "sized" => FracLeq(kelly.size1, kelly.size2)

\* ============================================= claims: risk_gate, continued
\* C14: the reason_code of a denied "open" evaluation is that of the first
\* rule violated in the order daily cap, per-market cap, open-position
\* count, HARD kill state.
C14_FirstViolationWins ==
    IsOpenCall =>
        result.reason_code =
            (IF call.daily_spend + call.intended_spend > 100 * CentsPerDollar
                THEN "DAILY_CAP_REACHED"
             ELSE IF call.per_market_spend + call.intended_spend > 40 * CentsPerDollar
                THEN "PER_MARKET_CAP_REACHED"
             ELSE IF call.open_positions >= (IF result.kill_state = KillSoft THEN 5 ELSE 8)
                THEN "TOO_MANY_POSITIONS"
             ELSE IF result.kill_state = KillHard
                THEN "KILL_HARD"
             ELSE result.reason_code)

\* the reason codes of the spend caps and of the position limit
CapReasons == {"DAILY_CAP_REACHED", "PER_MARKET_CAP_REACHED", "TOO_MANY_POSITIONS"}

\* C15: with trading live, an evaluation whose intended_action is not "open"
\* never returns a cap or position-count reason and leaves daily_spend of
\* every row as it was, while the breach level is still classified from the
\* refreshed realized P&L and _update_hysteresis still decides the row's
\* kill_state and kill_reason, which the result reports.
C15_NonOpenSkipsCaps ==
    [][(call'.kind = "gate" /\ call'.intended_action # "open")
          => LET row == day_state'[_local_day(now)]
                 refreshed == [_get_day_state(now) EXCEPT
                                  !.realized_pnl_today = _aggregate_realized(now)]
                 level == BreachState(DrawdownPct(refreshed.realized_pnl_today,
                                                  refreshed.start_equity))
                 after == _update_hysteresis(refreshed, level, now)
             IN /\ result'.reason_code \notin CapReasons
                /\ \A d \in DOMAIN day_state :
                      day_state'[d].daily_spend = day_state[d].daily_spend
                /\ call'.breach_state = level
                /\ row.kill_state = after.kill_state
                /\ row.kill_reason = after.kill_reason
                /\ result'.kill_state = row.kill_state]_vars

\* a heartbeat with the position limit reached commits HARD
C15_Witness ==
    /\ call.kind = "gate" /\ call.intended_action = "heartbeat"
    /\ call.open_positions = MAX_OPEN_POSITIONS
    /\ call.kill_before = KillNone
    /\ result.kill_state = KillHard
    /\ HasToday /\ Today.daily_spend = 95 * CentsPerDollar

\* C20: when one breach level has been classified by every evaluation of a
\* local day for 60 s or more, the evaluation that reaches first_seen + 60 s
\* leaves a persisted kill_state of at least that level, however many
\* evaluations lie in between.
C20_CommitAfterWindow ==
    [][(/\ call'.kind = "gate"
        /\ streak'.kind = "streak"
        /\ _local_day(streak'.first_seen) = _local_day(now)
        /\ now - streak'.first_seen >= BREACH_HYSTERESIS_SECONDS)
          => KillRank(day_state'[_local_day(now)].kill_state)
                >= KillRank(streak'.level)]_vars

\* C21: an evaluation raises the persisted kill_state to a level only when
\* every evaluation of the day during the 60 s before it classified that
\* level: the run of such evaluations that precedes it started 60 s ago or
\* earlier and no evaluation in between classified NONE or another level.
C21_CommitNeedsStreak ==
    [][(/\ call'.kind = "gate"
        /\ KillRank(day_state'[_local_day(now)].kill_state) > KillRank(call'.kill_before))
          => /\ streak.kind = "streak"
             /\ streak.level = day_state'[_local_day(now)].kill_state
             /\ now - streak.first_seen >= BREACH_HYSTERESIS_SECONDS]_vars

\* C22: an evaluation that classifies NONE leaves kill_state and kill_reason
\* of the day's row as they were (for a row it creates: NONE and no marker).
C22_NoneKeepsState ==
    [][(call'.kind = "gate" /\ call'.breach_state = KillNone)
          => /\ day_state'[_local_day(now)].kill_state = _get_day_state(now).kill_state
             /\ day_state'[_local_day(now)].kill_reason = _get_day_state(now).kill_reason]_vars

\* HARD is committed, the loss is won back, and the next evaluation has run
C22_Witness ==
    /\ call.kind = "gate" /\ call.breach_state = KillNone
    /\ HasToday /\ Today.kill_state = KillHard
    /\ Today.kill_reason # << >>
    /\ Today.realized_pnl_today = 0

\* C23: an evaluation on a local day that has no row yet works on a new row
\* with kill_state NONE and no marker: it reports NONE whatever the earlier
\* days' rows hold and whatever the drawdown is, the row it leaves has
\* kill_state NONE and at most the marker of the breach it has just seen,
\* and the rows of the earlier days stay as they were.
C23_NewDayStartsClean ==
    [][(Evaluated /\ ~HasToday)
          => /\ result'.kill_state = KillNone
             /\ day_state'[_local_day(now)].kill_state = KillNone
             /\ \A i \in 1..Len(day_state'[_local_day(now)].kill_reason) :
                   day_state'[_local_day(now)].kill_reason[i].ts = now
             /\ \A d \in DOMAIN day_state :
                   d \in DOMAIN day_state' /\ day_state'[d] = day_state[d]]_vars

\* HARD was committed on the day before, and the first evaluation of the new
\* day has classified HARD again
C23_Witness ==
    /\ call.kind = "gate" /\ call.breach_state = KillHard
    /\ result.kill_state = KillNone
    /\ HasToday
    /\ Today.kill_reason = <<[label |-> "hard_breach", ts |-> now]>>
    /\ _local_day(now) - 1 \in DOMAIN day_state
    /\ day_state[_local_day(now) - 1].kill_state = KillHard

\* C24: with calls of two workers interleaved, the commit of a call's
\* hysteresis step leaves kill_reason and kill_state as _update_hysteresis
\* makes them from what the table holds at that moment: no marker and no
\* kill state that another call has committed since this call loaded the row
\* is lost.
C24_NoStaleWrite ==
    [][\A w \in Workers :
          (sess[w].pc = "loaded" /\ sess'[w].pc = "decide")
             => LET d == _local_day(sess[w].t)
                    level == BreachState(DrawdownPct(sess[w].realized_today,
                                                     day_state[d].start_equity))
                    atomic == _update_hysteresis(day_state[d], level, sess[w].t)
                IN /\ day_state'[d].kill_reason = atomic.kill_reason
                   /\ day_state'[d].kill_state = atomic.kill_state]_vars

\* C25: the classification is HARD when the drawdown, rounded to 4 decimal
\* places, is at most -0.03, SOFT when it is above -0.03 and at most -0.02,
\* NONE otherwise; a realized P&L of zero or more is NONE, and a loss of
\* exactly 3% (2%) of start_equity is HARD (at least SOFT).
C25_BreachThresholds ==
    applied.kind = "breach_state"
        => /\ applied.returned =
                 (IF applied.drawdown_pct <= 0 - 300 THEN KillHard
                  ELSE IF applied.drawdown_pct <= 0 - 200 THEN KillSoft
                  ELSE KillNone)
           /\ applied.realized_today >= 0 => applied.returned = KillNone
           /\ applied.realized_today * 100 <= (0 - 3) * applied.start_equity
                 => applied.returned = KillHard
           /\ applied.realized_today * 100 <= (0 - 2) * applied.start_equity
                 => applied.returned # KillNone
           /\ applied.realized_today * 1000 > (0 - 15) * applied.start_equity
                 => applied.returned = KillNone

\* a loss of exactly 3% of start_equity
C25_Witness ==
    /\ applied.kind = "breach_state"
    /\ applied.realized_today * 100 = (0 - 3) * applied.start_equity
    /\ applied.returned = KillHard

\* C26: an order placed with auto_risk_check is executed only with an
\* assessment whose approved is True; when the assessment step could not
\* evaluate the order, portfolio_manager.execute_trade is not reached.
C26_FailClosed ==
    (order.kind = "executed" /\ order.auto_risk_check)
        => (IsAssessment /\ assessment.approved)

\* C27: for every profile, expected_return and win_probability the Kelly
\* position-size percentage is at least 0 and at most the
\* max_position_size_percent of that profile (2, 5, 10).
C27_KellyWithinProfile ==
    kelly.kind = "sized"
        => /\ kelly.size1.num >= 0
           /\ kelly.size1.num
                 <= MaxPositionSizePercent(kelly.user_risk_profile) * kelly.size1.den

\* C28: the position-size check fails with level CRITICAL when trade_size /
\* portfolio_value exceeds 1.5 times the max_position_size_percent of the
\* profile passed in user_risk_profile, with level HIGH when it exceeds that
\* limit, and passes otherwise.
C28_PositionSizeOfProfile ==
    (call.kind = "assess" /\ IsAssessment /\ Len(assessment.risk_checks) > 1
        /\ portfolio_value > 0)
        => LET check == assessment.risk_checks[3]
               limit == MaxPositionSizePercent(assessment.readings.user_risk_profile)
               outcome ==
                   IF call.trade_size * 100 * 2 > limit * 3 * portfolio_value
                   THEN <<FALSE, "critical">>
                   ELSE IF call.trade_size * 100 > limit * portfolio_value
                   THEN <<FALSE, "high">>
                   ELSE <<TRUE, "low">>
           IN <<check.passed, check.level>> = outcome

\* C29: the kill_state of every GateResult, in live mode and with trading
\* disabled alike, is the kill_state persisted on the row of the current
\* local day when risk_gate returns.
C29_ResultIsPersisted ==
    result.kind = "gate" => (HasToday /\ result.kill_state = Today.kill_state)

\* C30: the daily_pnl the daily-loss check of an assessment uses is the sum
\* of the pnl changes applied on the current UTC date: no change of an
\* earlier date is counted and no change of the current date is lost.
C30_DailyPnlOfToday ==
    (IsAssessment /\ Len(assessment.risk_checks) > 1)
        => daily_pnl = SumOn(UtcDate(now), PnlLog)

\* ================================================ claims: the assessment
IsTradeAssessment == assessment.kind = "assessment" /\ call.kind = "assess"

\* C16: a rejected assessment is explained: it never comes back with every
\* RiskCheck passed and "Trade appears acceptable within risk parameters" as
\* its only recommendation.
C16_RejectionExplained ==
    (IsTradeAssessment /\ ~assessment.approved)
        => ~(/\ AllPassed(assessment.risk_checks)
             /\ assessment.recommendations = <<Recommendation("acceptable", "")>>)

\* C17: for a market without a Market row the assessment carries all five
\* checks, the category-exposure and the correlation check have passed at
\* level LOW, and when the assessment is rejected the emergency stop, the
\* disabled checks, one of the three other checks or the confidence floor
\* (or a missing win_probability) is the cause.
C17_UnknownMarketPasses ==
    (IsTradeAssessment /\ MarketCategory(call.market_id) = "none"
                       /\ assessment.readings.win_probability # NoneValue)
        => /\ Len(assessment.risk_checks) = 5
           /\ assessment.risk_checks[4] = RiskCheck("category", TRUE, "low")
           /\ assessment.risk_checks[5] = RiskCheck("correlation", TRUE, "low")
           /\ ~assessment.approved
                 => \/ emergency_stop_active
                    \/ ~risk_checks_enabled
                    \/ \E i \in 1..3 : ~assessment.risk_checks[i].passed
                    \/ BelowConfidenceFloor(assessment.readings.win_probability,
                                            assessment.readings.user_risk_profile)

\* a trade on a market without a row that would breach the category limit
\* of "politics" is approved
C17_Witness ==
    /\ IsTradeAssessment /\ call.market_id = "M-GONE"
    /\ assessment.approved
    /\ category_exposures["politics"] > 0
    /\ (ExposureOf("politics") + call.trade_size) * 100
          > ConfigMaxCategoryExposurePercent * portfolio_value

\* ================================================= claims: the watchlist
\* the value a field resolves to: the override's when there is an override
\* and its field is not None, otherwise the user's default
Resolved(override, field, default) ==
    IF override # None /\ override[1][field] # None THEN override[1][field] ELSE default

\* C18: cleanup_expired(db, now) deletes the rows with expires_at <= now and
\* no other, returns how many it deleted, and called again with the same
\* now deletes nothing and returns 0.
C18_CleanupExact ==
    [][(swept'.kind = "cleanup" /\ swept'.at = now /\ now' = now)
          => LET gone == {k \in DOMAIN watchlist : watchlist[k] <= now}
             IN /\ DOMAIN watchlist' = DOMAIN watchlist \ gone
                /\ \A k \in DOMAIN watchlist' : watchlist'[k] = watchlist[k]
                /\ swept'.count = Cardinality(gone)
                /\ (swept.kind = "cleanup" /\ swept.at = now)
                      => (swept'.count = 0 /\ watchlist' = watchlist)]_vars

\* one row has been deleted and a later one is left
C18_Witness ==
    /\ swept.kind = "cleanup" /\ swept.at = now /\ swept.count = 1
    /\ DOMAIN watchlist = {"B"}
    /\ watchlist["B"] = now + TickSeconds

\* C19: merge_effective_rules returns, for each of alerts_enabled,
\* edge_threshold, min_liquidity, max_spread and channels on its own, the
\* override's value when an override exists and its field is not None (an
\* explicit False included) and the user's default otherwise; numbers come
\* back as floats.
C19_FieldsResolveAlone ==
    effective.kind = "merge"
        => LET r == effective.returned
               u == effective.user_rules
               o == effective.override
           IN /\ r.kind = "merged"
              /\ r.alerts_enabled = Resolved(o, "alerts_enabled", u.alerts_enabled_default)
              /\ r.edge_threshold
                    = FloatOrNone(Resolved(o, "edge_threshold", u.edge_threshold_default))
              /\ r.min_liquidity = FloatOrNone(Resolved(o, "min_liquidity", u.min_liquidity))
              /\ r.max_spread = FloatOrNone(Resolved(o, "max_spread", u.max_spread))
              /\ r.channels = Resolved(o, "channels_json", u.channels_json)

====
